---- MODULE Spec2Model ----
(***************************************************************************)
(* Mandelbrot renderer (src/main.rs): the escape-time iteration            *)
(* diverges_in, the sample grid and parallel map of get_divergence_vel,    *)
(* the ordered colour Palette (add_col / get_color) and main's render      *)
(* flow.                                                                   *)
(*                                                                         *)
(* Numbers.  The palette works on f64 values whose exact rounding decides  *)
(* the colour returned, so its arithmetic is IEEE-754 binary64, emulated   *)
(* exactly: a value is m * 2^e with m an arbitrary-size natural held as    *)
(* a little-endian sequence of 15-bit limbs, and every operation rounds    *)
(* its exact result to 53 significant bits, ties to even.  Only values     *)
(* >= 0 occur in get_color (k > prev_key, cur_key > prev_key, t <= 1), so  *)
(* no sign is carried; exponents stay far from the subnormal and           *)
(* overflow ranges.                                                        *)
(*                                                                         *)
(* The plane.  What is claimed of diverges_in and get_divergence_vel is    *)
(* control flow (the loop's guard and bound, which slot a result lands     *)
(* in), not the last bit of an orbit, and one hundred f64 complex          *)
(* squarings per sample per state are out of reach.  There an f64 is a     *)
(* multiple of 1/Scale held as an integer, and each operation rounds its   *)
(* exact result to the nearest multiple.  The grid itself is exact:        *)
(* Rational64 values are reduced fractions.                                *)
(***************************************************************************)
EXTENDS Integers, Sequences, FiniteSets, TLC

VARIABLES
    pc,            \* position of the running function
    _keys,         \* Palette::_keys, in BTreeSet iteration order
    _key_map,      \* Palette::_key_map
    key,           \* add_col: argument key of the latest call
    new_color,     \* add_col: argument new_color of the latest call
    adds,          \* number of add_col calls made so far
    k,             \* get_color: argument k of the latest call
    color,         \* get_color: what the latest call produced
    c,             \* diverges_in: argument c
    threshold,     \* diverges_in / get_divergence_vel: argument threshold
    accumulator,   \* diverges_in: local accumulator
    count,         \* diverges_in: local count
    d1,            \* diverges_in: local d1
    iters,         \* diverges_in: executions of the loop body so far
    ret,           \* diverges_in: the value returned, <<>> before the return
    width,         \* main / get_divergence_vel: width
    height,        \* main / get_divergence_vel: height
    grid,          \* get_divergence_vel: grid, rows of (x, y) samples
    slots,         \* get_divergence_vel: the output slots of the parallel map
    velocities,    \* main: velocities
    px,            \* main: pixels of imgbuf visited so far
    imgbuf         \* main: imgbuf, row-major

paletteVars == <<_keys, _key_map, key, new_color, adds, k, color>>
divergeVars == <<c, threshold, accumulator, count, d1, iters, ret>>
mainVars == <<width, height, grid, slots, velocities, px, imgbuf>>
vars == <<pc, paletteVars, divergeVars, mainVars>>

Min(a, b) == IF a <= b THEN a ELSE b
Max(a, b) == IF a >= b THEN a ELSE b

(***************************************************************************)
(* Naturals of arbitrary size: little-endian sequences of limbs below      *)
(* Base, without leading zero limbs (zero is the empty sequence).          *)
(***************************************************************************)
LimbBits == 15
Base == 2^LimbBits

Limb(a, i) == IF i <= Len(a) THEN a[i] ELSE 0

Zeros(n) == [i \in 1..n |-> 0]

\* a without its leading zero limbs
BNorm(a) ==
    SubSeq(a, 1, Cardinality({i \in 1..Len(a) : \E j \in i..Len(a) : a[j] # 0}))

RECURSIVE BAddFrom(_, _, _, _)
BAddFrom(a, b, i, carry) ==
    IF i > Len(a) /\ i > Len(b)
    THEN IF carry = 0 THEN <<>> ELSE <<carry>>
    ELSE LET s == Limb(a, i) + Limb(b, i) + carry
         IN  <<s % Base>> \o BAddFrom(a, b, i + 1, s \div Base)

BAdd(a, b) == BAddFrom(a, b, 1, 0)

\* a - b for a >= b
RECURSIVE BSubFrom(_, _, _, _)
BSubFrom(a, b, i, borrow) ==
    IF i > Len(a)
    THEN <<>>
    ELSE LET d == a[i] - Limb(b, i) - borrow
         IN  IF d < 0 THEN <<d + Base>> \o BSubFrom(a, b, i + 1, 1)
                      ELSE <<d>> \o BSubFrom(a, b, i + 1, 0)

BSub(a, b) == BNorm(BSubFrom(a, b, 1, 0))

RECURSIVE BCmpFrom(_, _, _)
BCmpFrom(a, b, i) ==
    IF i = 0 THEN 0
    ELSE IF a[i] # b[i] THEN (IF a[i] < b[i] THEN -1 ELSE 1)
    ELSE BCmpFrom(a, b, i - 1)

\* -1, 0, 1 as a < b, a = b, a > b
BCmp(a, b) ==
    IF Len(a) # Len(b) THEN (IF Len(a) < Len(b) THEN -1 ELSE 1)
    ELSE BCmpFrom(a, b, Len(a))

\* a * n for 0 <= n < Base
RECURSIVE BMulSmallFrom(_, _, _, _)
BMulSmallFrom(a, n, i, carry) ==
    IF i > Len(a)
    THEN IF carry = 0 THEN <<>> ELSE <<carry>>
    ELSE LET p == a[i] * n + carry
         IN  <<p % Base>> \o BMulSmallFrom(a, n, i + 1, p \div Base)

BMulSmall(a, n) == IF n = 0 THEN <<>> ELSE BMulSmallFrom(a, n, 1, 0)

ShiftLimbs(a, n) == IF a = <<>> THEN <<>> ELSE Zeros(n) \o a

RECURSIVE BMulFrom(_, _, _)
BMulFrom(a, b, j) ==
    IF j > Len(b) THEN <<>>
    ELSE BAdd(BMulSmall(a, b[j]), ShiftLimbs(BMulFrom(a, b, j + 1), 1))

BMul(a, b) == BMulFrom(a, b, 1)

\* a * 2^n
BShl(a, n) == ShiftLimbs(BMulSmall(a, 2^(n % LimbBits)), n \div LimbBits)

\* floor(a / 2^n)
BShr(a, n) ==
    LET drop == n \div LimbBits
        r    == n % LimbBits
        lo   == 2^r
        hi   == 2^(LimbBits - r)
    IN  IF drop >= Len(a) THEN <<>>
        ELSE BNorm([i \in 1..(Len(a) - drop) |->
                      (a[i + drop] \div lo) + (Limb(a, i + drop + 1) % lo) * hi])

BitLenSmall(x) == Cardinality({j \in 0..(LimbBits - 1) : 2^j <= x})

\* number of significant bits of a
BitLen(a) ==
    IF a = <<>> THEN 0 ELSE LimbBits * (Len(a) - 1) + BitLenSmall(a[Len(a)])

\* bit i of a (bit 0 is the lowest)
BBit(a, i) == (Limb(a, i \div LimbBits + 1) \div 2^(i % LimbBits)) % 2

\* a mod 2^i = 0
BLowZero(a, i) ==
    /\ \A j \in 1..Min(i \div LimbBits, Len(a)) : a[j] = 0
    /\ Limb(a, i \div LimbBits + 1) % 2^(i % LimbBits) = 0

\* the number of zero bits below the lowest 1 bit of a # 0
TrailingZeros(a) ==
    LET z == Cardinality({i \in 1..Len(a) : \A j \in 1..i : a[j] = 0})
    IN  z * LimbBits + Cardinality({j \in 1..(LimbBits - 1) : a[z + 1] % 2^j = 0})

\* the largest t < Base with t * d <= r, five bits at a time
QuotientLimb(r, d) ==
    LET Fits(t) == BCmp(BMulSmall(d, t), r) <= 0
        a == 1024 * Cardinality({j \in 1..31 : Fits(1024 * j)})
        b == a + 32 * Cardinality({j \in 1..31 : Fits(a + 32 * j)})
    IN  b + Cardinality({j \in 1..31 : Fits(b + j)})

\* <<floor(n / d), n mod d>> by long division, from limb i of n down; q holds
\* the quotient's limbs found so far and r the running remainder (r < d)
RECURSIVE BDivLimbs(_, _, _, _, _)
BDivLimbs(n, d, i, q, r) ==
    IF i = 0 THEN <<BNorm(q), r>>
    ELSE LET r2 == BNorm(<<n[i]>> \o r)
             t  == QuotientLimb(r2, d)
         IN  BDivLimbs(n, d, i - 1, <<t>> \o q, BSub(r2, BMulSmall(d, t)))

BDivMod(n, d) == BDivLimbs(n, d, Len(n), <<>>, <<>>)

\* the value of a when it fits one limb, else Base (more than any u8)
ToInt(a) == IF a = <<>> THEN 0 ELSE IF Len(a) = 1 THEN a[1] ELSE Base

(***************************************************************************)
(* f64, non-negative and finite: [m, e] stands for m * 2^e, kept with m    *)
(* odd (zero is m = <<>>, e = 0), so equal values are equal records.       *)
(***************************************************************************)
MantBits == 53

F64Zero == [m |-> <<>>, e |-> 0]

Canon(m, e) ==
    IF m = <<>> THEN F64Zero
    ELSE LET tz == TrailingZeros(m) IN [m |-> BShr(m, tz), e |-> e + tz]

\* m * 2^e rounded to MantBits significant bits, ties to even
Round53(m, e) ==
    LET n == BitLen(m)
    IN  IF n <= MantBits THEN Canon(m, e)
        ELSE LET sh     == n - MantBits
                 q      == BShr(m, sh)
                 half   == BBit(m, sh - 1) = 1
                 sticky == ~BLowZero(m, sh - 1)
                 up     == half /\ (sticky \/ BBit(q, 0) = 1)
             IN  Canon(IF up THEN BAdd(q, <<1>>) ELSE q, e + sh)

\* n as f64, for 0 <= n < Base (exact)
F64FromInt(n) == IF n = 0 THEN F64Zero ELSE Canon(<<n>>, 0)

\* -1, 0, 1 as a < b, a = b, a > b
F64Cmp(a, b) ==
    IF a.m = <<>> THEN (IF b.m = <<>> THEN 0 ELSE -1)
    ELSE IF b.m = <<>> THEN 1
    ELSE LET pa == BitLen(a.m) + a.e
             pb == BitLen(b.m) + b.e
             e  == Min(a.e, b.e)
         IN  IF pa # pb THEN (IF pa < pb THEN -1 ELSE 1)
             ELSE BCmp(BShl(a.m, a.e - e), BShl(b.m, b.e - e))

F64Le(a, b) == F64Cmp(a, b) <= 0
F64Ge(a, b) == F64Cmp(a, b) >= 0
F64Lt(a, b) == F64Cmp(a, b) < 0

F64Add(a, b) ==
    IF a.m = <<>> THEN b
    ELSE IF b.m = <<>> THEN a
    ELSE LET e == Min(a.e, b.e)
         IN  Round53(BAdd(BShl(a.m, a.e - e), BShl(b.m, b.e - e)), e)

\* a - b for a >= b
F64Sub(a, b) ==
    IF b.m = <<>> THEN a
    ELSE LET e == Min(a.e, b.e)
         IN  Round53(BSub(BShl(a.m, a.e - e), BShl(b.m, b.e - e)), e)

F64Mul(a, b) ==
    IF a.m = <<>> \/ b.m = <<>> THEN F64Zero
    ELSE Round53(BMul(a.m, b.m), a.e + b.e)

\* a / b for b > 0: the quotient to more than MantBits + 2 bits, then one
\* more bit that is 1 iff the division left a remainder, then rounded
F64Div(a, b) ==
    IF a.m = <<>> THEN F64Zero
    ELSE LET s  == MantBits + 3 + BitLen(b.m) - BitLen(a.m)
             qr == BDivMod(BShl(a.m, s), b.m)
             q2 == BAdd(BMulSmall(qr[1], 2), IF qr[2] = <<>> THEN <<>> ELSE <<1>>)
         IN  Round53(q2, a.e - b.e - s - 1)

\* the f64 nearest n / d: what the literal n/d (0.15 is 15/100) denotes, and
\* what n as f64 / d as f64 computes
F64Ratio(n, d) == F64Div(F64FromInt(n), F64FromInt(d))

F64One == F64FromInt(1)

(***************************************************************************)
(* MathyColor<f64> and Rgb<u8>.  An Rgb<u8> is <<r, g, b>> with channels   *)
(* in 0..255.  A function that may panic returns [panic, rgb], with        *)
(* rgb = <<>> when it panicked and so produced no colour.                  *)
(***************************************************************************)
Panicked == [panic |-> TRUE, rgb |-> <<>>]
Returned(rgb) == [panic |-> FALSE, rgb |-> rgb]

MathyColor_new(r, g, b) == [r |-> r, g |-> g, b |-> b]

from_ref(other) ==
    [r |-> F64FromInt(other[1]), g |-> F64FromInt(other[2]), b |-> F64FromInt(other[3])]

MathyColor_add(self, rhs) ==
    MathyColor_new(F64Add(self.r, rhs.r), F64Add(self.g, rhs.g), F64Add(self.b, rhs.b))

MathyColor_mul(self, rhs) ==
    MathyColor_new(F64Mul(self.r, rhs), F64Mul(self.g, rhs), F64Mul(self.b, rhs))

\* lerp::Lerp for a type with Add and Mul<F>: self * (1 - t) + other * t
lerp(self, other, t) ==
    MathyColor_add(MathyColor_mul(self, F64Sub(F64One, t)), MathyColor_mul(other, t))

\* ToPrimitive::to_u8 of an integral value: Some(n) as <<n>>, None as <<>>
to_u8(n) == IF n <= 255 THEN <<n>> ELSE <<>>

\* the mutant of F64Round: the fraction is cut off
F64Trunc(a) ==
    IF a.m = <<>> THEN 0
    ELSE IF a.e >= 0 THEN ToInt(BShl(a.m, a.e))
    ELSE ToInt(BShr(a.m, -a.e))

\* f64::round for a >= 0 (half away from zero), as an integer
F64Round(a) ==
    IF a.m = <<>> THEN 0
    ELSE IF a.e >= 0 THEN ToInt(BShl(a.m, a.e))
    ELSE IF BitLen(a.m) + a.e < 0 THEN 0
    ELSE ToInt(BAdd(BShr(a.m, -a.e), IF BBit(a.m, -a.e - 1) = 1 THEN <<1>> ELSE <<>>))

\* MathyColor::unwrap: each channel rounded, then to_u8().unwrap()
unwrap(self) ==
    LET r == to_u8(F64Round(self.r))
        g == to_u8(F64Round(self.g))
        b == to_u8(F64Round(self.b))
    IN  IF r = <<>> \/ g = <<>> \/ b = <<>> THEN Panicked
        ELSE Returned(<<r[1], g[1], b[1]>>)

(***************************************************************************)
(* Palette                                                                 *)
(***************************************************************************)
Range(s) == {s[i] : i \in DOMAIN s}

\* the mutant of BTreeSet_insert: a list that keeps insertion order
Vec_push_unique(keys, x) == IF x \in Range(keys) THEN keys ELSE Append(keys, x)

\* BTreeSet::insert on the set's ascending iteration order
BTreeSet_insert(keys, x) ==
    IF x \in Range(keys) THEN keys
    ELSE LET n == Cardinality({i \in DOMAIN keys : F64Lt(keys[i], x)})
         IN  SubSeq(keys, 1, n) \o <<x>> \o SubSeq(keys, n + 1, Len(keys))

\* the mutant of HashMap_insert: an existing entry is kept
HashMap_insert_if_absent(map, x, v) ==
    [y \in DOMAIN map \cup {x} |-> IF y \in DOMAIN map THEN map[y] ELSE v]

\* HashMap::insert: a new entry, or the old one overwritten
HashMap_insert(map, x, v) ==
    [y \in DOMAIN map \cup {x} |-> IF y = x THEN v ELSE map[y]]

\* the for loop of get_color, at the i-th key of the iteration
RECURSIVE get_color_loop(_, _, _, _, _)
get_color_loop(keys, map, kk, i, prev_key) ==
    IF i > Len(keys) THEN Panicked
    ELSE LET cur_key == keys[i]
         IN  IF F64Ge(cur_key, kk)
             THEN LET prev_color           == map[prev_key]
                      cur_color            == map[cur_key]
                      interpolation_factor ==
                          F64Div(F64Sub(kk, prev_key), F64Sub(cur_key, prev_key))
                  IN  unwrap(lerp(from_ref(prev_color), from_ref(cur_color),
                                  interpolation_factor))
             ELSE get_color_loop(keys, map, kk, i + 1, cur_key)

\* the mutant of get_color: a key above every stop clamps to the last stop
get_color_clamped(keys, map, kk) ==
    IF keys = <<>> THEN Panicked
    ELSE IF F64Le(kk, keys[1]) THEN Returned(map[keys[1]])
    ELSE IF F64Lt(keys[Len(keys)], kk) THEN Returned(map[keys[Len(keys)]])
    ELSE get_color_loop(keys, map, kk, 1, keys[1])

\* Palette::get_color; _keys.first().unwrap() panics on an empty palette
get_color(keys, map, kk) ==
    IF keys = <<>> THEN Panicked
    ELSE LET prev_key == keys[1]
         IN  IF F64Le(kk, prev_key) THEN Returned(map[prev_key])
             ELSE get_color_loop(keys, map, kk, 1, prev_key)

(***************************************************************************)
(* f64 on the plane: integers counting multiples of 1 / Scale.             *)
(***************************************************************************)
ITERMAX == 100

Scale == 10 * 10

Abs(n) == IF n < 0 THEN -n ELSE n

\* n / d for d > 0, rounded to the nearest integer, a half away from zero
RoundDiv(n, d) == IF n >= 0 THEN (n + d \div 2) \div d ELSE -((-n + d \div 2) \div d)

C64_new(re, im) == [re |-> re, im |-> im]

C64_add(a, b) == C64_new(a.re + b.re, a.im + b.im)
C64_sub(a, b) == C64_new(a.re - b.re, a.im - b.im)

C64_mul(a, b) ==
    C64_new(RoundDiv(a.re * b.re - a.im * b.im, Scale),
            RoundDiv(a.re * b.im + a.im * b.re, Scale))

\* z.abs() < t; the squares are taken only of parts below t
AbsLt(z, t) ==
    /\ Abs(z.re) < t
    /\ Abs(z.im) < t
    /\ z.re * z.re + z.im * z.im < t * t

\* the mutant of AbsLt: z.abs() <= t
AbsLe(z, t) ==
    /\ Abs(z.re) <= t
    /\ Abs(z.im) <= t
    /\ z.re * z.re + z.im * z.im <= t * t

next_mandelbrot(z, cc) == C64_add(C64_mul(z, z), cc)

\* the f64 nearest n / d, for a literal such as 0.53
Fix(n, d) == RoundDiv(n * Scale, d)

C64_i == C64_new(0, Scale)

\* real / complex of num_complex: t * z.re / |z|^2 - i * t * z.im / |z|^2
C64_real_div(t, z) ==
    LET norm_sqr == z.re * z.re + z.im * z.im
    IN  C64_new(RoundDiv(t * z.re * Scale, norm_sqr),
                -RoundDiv(t * z.im * Scale, norm_sqr))

transform(base) ==
    LET b == C64_mul(C64_add(base, C64_new(0, -Fix(53, 100))), C64_i)
    IN  IF b.re = 0 /\ b.im = 0
        THEN C64_new(Fix(10, 1), Fix(10, 1))
        ELSE C64_real_div(Fix(4, 10), b)

(***************************************************************************)
(* Rational64: [n, d] with d > 0 and n, d coprime.                         *)
(***************************************************************************)
RECURSIVE GCD(_, _)
GCD(a, b) == IF b = 0 THEN a ELSE GCD(b, a % b)

Ratio_new(n, d) ==
    LET g == GCD(Abs(n), Abs(d))
    IN  IF d > 0 THEN [n |-> n \div g, d |-> d \div g]
                 ELSE [n |-> (-n) \div g, d |-> (-d) \div g]

Ratio_mul(a, b) == Ratio_new(a.n * b.n, a.d * b.d)
Ratio_sub(a, b) == Ratio_new(a.n * b.d - b.n * a.d, a.d * b.d)
Ratio_neg(a) == [n |-> -a.n, d |-> a.d]

\* Ratio::to_f64
Ratio_to_f64(a) == RoundDiv(a.n * Scale, a.d)

(***************************************************************************)
(* diverges_in.  Its locals are the frame [accumulator, count, d1]; d2 and *)
(* second_d are computed from them and used by nothing (the early return   *)
(* is commented out).                                                      *)
(***************************************************************************)
Frame(acc, n, d) == [accumulator |-> acc, count |-> n, d1 |-> d]

diverges_in_entry(cc) == Frame(cc, 0, C64_new(0, 0))

\* the mutant of loop_cond: the guard without the iteration cap
loop_cond_uncapped(f, th) == AbsLt(f.accumulator, th)

\* the mutant of loop_cond: a sample on the threshold circle still iterates
loop_cond_inclusive(f, th) == AbsLe(f.accumulator, th) /\ f.count < ITERMAX

\* the guard of the while loop
loop_cond(f, th) == AbsLt(f.accumulator, th) /\ f.count < ITERMAX

\* one execution of the loop body
loop_body(f, cc) ==
    LET next_accumulator == next_mandelbrot(f.accumulator, cc)
        d                == C64_sub(next_accumulator, f.accumulator)
    IN  Frame(next_accumulator, f.count + 1, d)

\* the loop run from frame f for at most n executions of its body, the run
\* split in halves
RECURSIVE diverges_in_run(_, _, _, _)
diverges_in_run(f, cc, th, n) ==
    IF n = 0 \/ ~loop_cond(f, th) THEN f
    ELSE IF n = 1 THEN loop_body(f, cc)
    ELSE diverges_in_run(diverges_in_run(f, cc, th, n \div 2), cc, th, n - n \div 2)

\* more executions than the loop can make; a loop that overran ITERMAX
\* would return a count above it
LoopFuel == 2 * ITERMAX

\* diverges_in(c, threshold) as one step
diverges_in(cc, th) == diverges_in_run(diverges_in_entry(cc), cc, th, LoopFuel).count

(***************************************************************************)
(* The palette on its own: any add_col calls, then any get_color calls.    *)
(* Positions and colours are those of the documented scenarios.            *)
(***************************************************************************)
MaxAdds == 4

Hundredths == {0, 10, 50, 100}
QueryHundredths == {0, 5, 30, 50, 100}

Position(h) == F64Ratio(h, 100)

StopKeys == {Position(h) : h \in Hundredths}
QueryKeys == {Position(h) : h \in QueryHundredths}

ColA == <<72, 67, 73>>
ColB == <<255, 89, 100>>
StopColors == {ColA, ColB}

Palette_new ==
    /\ _keys = <<>>
    /\ _key_map = <<>>

\* the variables of diverges_in while no call is running
NoCall ==
    /\ c = C64_new(0, 0)
    /\ threshold = 0
    /\ accumulator = C64_new(0, 0)
    /\ count = 0
    /\ d1 = C64_new(0, 0)
    /\ iters = 0
    /\ ret = <<>>

\* the variables of main while main is not running
NoMain ==
    /\ width = 0
    /\ height = 0
    /\ grid = <<>>
    /\ slots = <<>>
    /\ velocities = <<>>
    /\ px = 0
    /\ imgbuf = <<>>

InitPalette ==
    /\ pc = "new"
    /\ NoCall
    /\ NoMain
    /\ Palette_new
    /\ key = <<>>
    /\ new_color = <<>>
    /\ adds = 0
    /\ k = <<>>
    /\ color = <<>>

\* palette.add_col(key, &new_color)
add_col(x, v) ==
    /\ _keys' = BTreeSet_insert(_keys, x)
    /\ _key_map' = HashMap_insert(_key_map, x, v)

AddCol ==
    /\ pc \in {"new", "add_col"}
    /\ adds < MaxAdds
    /\ \E x \in StopKeys, v \in StopColors :
          /\ add_col(x, v)
          /\ key' = <<x>>
          /\ new_color' = <<v>>
    /\ adds' = adds + 1
    /\ pc' = "add_col"
    /\ UNCHANGED <<divergeVars, mainVars, k, color>>

\* the palette is complete: from here on it is only read
Built ==
    /\ pc \in {"new", "add_col"}
    /\ pc' = "built"
    /\ key' = <<>>
    /\ new_color' = <<>>
    /\ adds' = 0
    /\ UNCHANGED <<divergeVars, mainVars, _keys, _key_map, k, color>>

\* palette.get_color(k)
GetColor ==
    /\ pc = "built"
    /\ \E kk \in QueryKeys :
          /\ k' = <<kk>>
          /\ color' = <<get_color(_keys, _key_map, kk)>>
    /\ pc' = "get_color"
    /\ UNCHANGED <<divergeVars, mainVars, _keys, _key_map, key, new_color, adds>>

\* the caller takes the result (a panic ends the program)
Return ==
    /\ pc = "get_color"
    /\ ~color[1].panic
    /\ pc' = "built"
    /\ k' = <<>>
    /\ color' = <<>>
    /\ UNCHANGED <<divergeVars, mainVars, _keys, _key_map, key, new_color, adds>>

NextPalette == AddCol \/ Built \/ GetColor \/ Return

SpecPalette == InitPalette /\ [][NextPalette]_vars

(***************************************************************************)
(* Properties of the palette, under SpecPalette.                           *)
(***************************************************************************)
\* the stored positions, found from the map and not from the order of _keys
MinKey == CHOOSE x \in DOMAIN _key_map : \A y \in DOMAIN _key_map : F64Le(x, y)
MaxKey == CHOOSE x \in DOMAIN _key_map : \A y \in DOMAIN _key_map : F64Le(y, x)

\* the first stop at or above kk, and the stop just below a stop
StopAtOrAbove(kk) ==
    CHOOSE x \in DOMAIN _key_map :
        /\ F64Ge(x, kk)
        /\ \A y \in DOMAIN _key_map : F64Ge(y, kk) => F64Le(x, y)
StopBelow(cur) ==
    CHOOSE x \in DOMAIN _key_map :
        /\ F64Lt(x, cur)
        /\ \A y \in DOMAIN _key_map : F64Lt(y, cur) => F64Le(y, x)

\* j / 2 for an odd j below Base
HalfOdd(j) == [m |-> <<j>>, e |-> -1]

\* n is the integer nearest v, a half going up: n - 1/2 <= v < n + 1/2
IsNearest(n, v) ==
    /\ n = 0 \/ F64Le(HalfOdd(2 * n - 1), v)
    /\ F64Lt(v, HalfOdd(2 * n + 1))

\* channel i of prev.color * (1 - t) + cur.color * t, in f64
Blend(kk, i) ==
    LET cur  == StopAtOrAbove(kk)
        prev == StopBelow(cur)
        t    == F64Div(F64Sub(kk, prev), F64Sub(cur, prev))
    IN  F64Add(F64Mul(F64FromInt(_key_map[prev][i]), F64Sub(F64One, t)),
               F64Mul(F64FromInt(_key_map[cur][i]), t))

InRange == pc = "get_color" /\ _keys # <<>> /\ F64Lt(MinKey, k[1]) /\ F64Le(k[1], MaxKey)

TwoStops == DOMAIN _key_map = {F64Zero, F64One}

\* C5: for min position < k <= max position, get_color(k) is the blend
\* prev.color * (1 - t) + cur.color * t of the first stop cur at or above k
\* and the stop prev just below it, t = (k - prev) / (cur - prev), each
\* channel rounded to the nearest u8 and not truncated; with stops
\* [(0.0, A), (1.0, B)], get_color(1.0) = B and get_color(0.5) is the
\* midpoint of A and B with a half rounded up.
C5_Interpolates ==
    InRange =>
        /\ ~color[1].panic
        /\ \A i \in 1..3 : IsNearest(color[1].rgb[i], Blend(k[1], i))
        /\ TwoStops /\ k[1] = F64One => color[1].rgb = _key_map[F64One]
        /\ TwoStops /\ k[1] = HalfOdd(1) =>
              \A i \in 1..3 :
                  color[1].rgb[i] = (_key_map[F64Zero][i] + _key_map[F64One][i] + 1) \div 2

\* a lookup of 0.5 between stops (0.0, ColA) and (1.0, ColB): the red and
\* blue midpoints 163.5 and 86.5 are rounded up
C5_Witness ==
    /\ InRange
    /\ TwoStops
    /\ _key_map[F64Zero] = ColA
    /\ _key_map[F64One] = ColB
    /\ k[1] = HalfOdd(1)
    /\ color[1] = Returned(<<164, 78, 87>>)

FourStops ==
    /\ _keys = <<Position(0), Position(10), Position(50), Position(100)>>
    /\ _key_map = [x \in Range(_keys) |-> IF x = Position(50) THEN ColB ELSE ColA]

AskedThreeTenths == pc = "get_color" /\ FourStops /\ k[1] = Position(30)

\* C6 as stated: on the four-stop palette get_color(0.3) returns (163, 78, 86).
C6_AsStated == AskedThreeTenths => color[1] = Returned(<<163, 78, 86>>)

\* C6 amended: on the four-stop palette get_color(0.3) blends the 0.1 and 0.5
\* stops and returns (164, 78, 87), the midpoints 163.5, 78 and 86.5 rounded
\* to nearest with a half going up.
C6_RoundedMidpoint ==
    AskedThreeTenths =>
        /\ StopAtOrAbove(k[1]) = Position(50)
        /\ StopBelow(Position(50)) = Position(10)
        /\ color[1] = Returned(<<164, 78, 87>>)

C6_Witness == AskedThreeTenths /\ ~color[1].panic

\* C7: for k at or below the smallest stop position, get_color(k) returns the
\* colour stored for the smallest stop, unchanged, whatever the other stops.
C7_ClampsBelow ==
    pc = "get_color" /\ _keys # <<>> /\ F64Le(k[1], MinKey) =>
        color[1] = Returned(_key_map[MinKey])

\* a lookup strictly below the smallest of several stops, whose colour
\* differs from the largest stop's
C7_Witness ==
    /\ pc = "get_color"
    /\ Len(_keys) >= 3
    /\ F64Lt(k[1], MinKey)
    /\ _key_map[MinKey] # _key_map[MaxKey]
    /\ color[1] = Returned(_key_map[MinKey])

StrictlyAscending(keys) ==
    \A i \in 1..(Len(keys) - 1) : F64Lt(keys[i], keys[i + 1])

\* C8: every add_col(key, new_color) leaves one stop per position added so
\* far (the map gains key and nothing else, and _keys has as many entries
\* as the map), in strictly ascending order, the stop at key holding
\* new_color and every other stop its colour as before, and _keys holding
\* exactly the keys of _key_map.
C8_AddCol ==
    [][pc' = "add_col" =>
          /\ DOMAIN _key_map' = DOMAIN _key_map \cup {key'[1]}
          /\ _key_map'[key'[1]] = new_color'[1]
          /\ \A x \in DOMAIN _key_map \ {key'[1]} : _key_map'[x] = _key_map[x]
          /\ Len(_keys') = Cardinality(DOMAIN _key_map')
          /\ StrictlyAscending(_keys')
          /\ Range(_keys') = DOMAIN _key_map']_vars

\* more calls than stops: a position was added again, and the latest add
\* went below stops already there
C8_Witness ==
    /\ pc = "add_col"
    /\ adds > Len(_keys)
    /\ Len(_keys) >= 3
    /\ key[1] = _keys[1]
    /\ _key_map[key[1]] = ColB

\* C9: for k above the largest stop position, get_color(k) panics and
\* returns no colour.
C9_PanicsAbove ==
    pc = "get_color" /\ _keys # <<>> /\ F64Lt(MaxKey, k[1]) =>
        /\ color[1] = Panicked
        /\ ~ENABLED Return

C9_Witness ==
    /\ pc = "get_color"
    /\ Len(_keys) >= 2
    /\ F64Lt(MaxKey, k[1])
    /\ color[1].panic

(***************************************************************************)
(* diverges_in on its own, one loop iteration per step.                    *)
(***************************************************************************)
SampleParts == {-200, -100, -75, -12, 0, 25, 30, 100, 200}
Samples == {C64_new(re, im) : re \in SampleParts, im \in SampleParts}
Thresholds == {-100, 0, 100, 200, 30000}

InitDiverge ==
    /\ pc = "while"
    /\ NoMain
    /\ Palette_new
    /\ key = <<>>
    /\ new_color = <<>>
    /\ adds = 0
    /\ k = <<>>
    /\ color = <<>>
    /\ c \in Samples
    /\ threshold \in Thresholds
    /\ accumulator = diverges_in_entry(c).accumulator
    /\ count = diverges_in_entry(c).count
    /\ d1 = diverges_in_entry(c).d1
    /\ iters = 0
    /\ ret = <<>>

\* the guard holds: the body runs once
LoopBody ==
    /\ pc = "while"
    /\ loop_cond(Frame(accumulator, count, d1), threshold)
    /\ LET f == loop_body(Frame(accumulator, count, d1), c)
       IN  /\ accumulator' = f.accumulator
           /\ count' = f.count
           /\ d1' = f.d1
    /\ iters' = iters + 1
    /\ UNCHANGED <<pc, paletteVars, mainVars, c, threshold, ret>>

\* the guard fails: count is returned
LoopExit ==
    /\ pc = "while"
    /\ ~loop_cond(Frame(accumulator, count, d1), threshold)
    /\ ret' = <<count>>
    /\ pc' = "returned"
    /\ UNCHANGED <<paletteVars, mainVars, c, threshold, accumulator, count, d1, iters>>

NextDiverge == LoopBody \/ LoopExit

SpecDiverge == InitDiverge /\ [][NextDiverge]_vars

\* C1: diverges_in stops after at most ITERMAX executions of its loop body
\* and returns the number of executions performed, a count in 0..ITERMAX.
C1_Bounded ==
    /\ iters <= ITERMAX
    /\ pc = "returned" => ret = <<iters>> /\ ret[1] \in 0..ITERMAX

\* an orbit that never leaves the threshold circle: the call returns at the cap
C1_Witness == pc = "returned" /\ iters = ITERMAX /\ ret = <<ITERMAX>>

\* |c| >= threshold, without the code's comparison: the threshold is not
\* positive, or it is and |c|^2 >= threshold^2
OnOrOutside(z, t) == t <= 0 \/ Abs(z.re) >= t \/ Abs(z.im) >= t \/ z.re * z.re + z.im * z.im >= t * t

\* C2: for |c| >= threshold the loop body is never entered and diverges_in
\* returns 0.
C2_OutsideIsZero ==
    OnOrOutside(c, threshold) => iters = 0 /\ (pc = "returned" => ret = <<0>>)

\* a sample exactly on the circle of a positive threshold, returned
C2_Witness ==
    /\ pc = "returned"
    /\ threshold > 0
    /\ c.re * c.re + c.im * c.im = threshold * threshold
    /\ ret = <<0>>

(***************************************************************************)
(* main: get_divergence_vel (the grid, then the parallel map, whose cells  *)
(* are evaluated in any order), the palette, the pixel loop, the save.     *)
(* MaxWidth and MaxHeight stand in for main's 3840 and 2160.               *)
(***************************************************************************)
MaxWidth == 2
MaxHeight == 2

y_scale == Ratio_new(112, 100)
x_scale(w, h) == Ratio_mul(y_scale, Ratio_new(w, h))

\* the sample of column w and row h, as the grid closure computes it
sample_x(w, wd, ht) ==
    Ratio_sub(Ratio_mul(Ratio_new(2 * w, wd), x_scale(wd, ht)), x_scale(wd, ht))
sample_y(h, ht) ==
    Ratio_sub(Ratio_mul(Ratio_new(2 * h, ht), y_scale), y_scale)

build_grid(wd, ht) ==
    [h \in 0..(ht - 1) |-> [w \in 0..(wd - 1) |-> <<sample_x(w, wd, ht), sample_y(h, ht)>>]]

\* the closure of the parallel map: one sample to its velocity
cell_velocity(sample, th) ==
    LET re == Ratio_to_f64(sample[1])
        im == Ratio_to_f64(sample[2])
    IN  diverges_in(transform(C64_new(re, im)), th)

\* the mutant of collect_into: results land in the row in order of completion
collect_in_completion_order(out, y, x, v) ==
    LET first == CHOOSE i \in DOMAIN out[y] :
                     out[y][i] = <<>> /\ \A j \in DOMAIN out[y] : out[y][j] = <<>> => i <= j
    IN  [out EXCEPT ![y][first] = <<v>>]

\* the indexed collect of rayon: the result of item (y, x) lands in slot (y, x)
collect_into(out, y, x, v) == [out EXCEPT ![y][x] = <<v>>]

main_cols == << <<229, 208, 204>>, <<229, 208, 204>>, <<23, 33, 33>> >>
main_col_keys == <<F64Ratio(0, 100), F64Ratio(15, 100), F64Ratio(100, 100)>>

\* the mutant of gradient: normalised by one less than ITERMAX
gradient_off_by_one(velocity, keys, map) ==
    get_color(keys, map, F64Ratio(velocity, ITERMAX - 1))

gradient(velocity, keys, map) ==
    get_color(keys, map, F64Ratio(velocity, ITERMAX))

MainThresholds == {Fix(2, 1), Fix(300, 1)}

Init ==
    /\ pc = "main"
    /\ width \in 1..MaxWidth
    /\ height \in 1..MaxHeight
    /\ threshold \in MainThresholds
    /\ c = C64_new(0, 0)
    /\ accumulator = C64_new(0, 0)
    /\ count = 0
    /\ d1 = C64_new(0, 0)
    /\ iters = 0
    /\ ret = <<>>
    /\ grid = <<>>
    /\ slots = <<>>
    /\ velocities = <<>>
    /\ px = 0
    /\ imgbuf = <<>>
    /\ Palette_new
    /\ key = <<>>
    /\ new_color = <<>>
    /\ adds = 0
    /\ k = <<>>
    /\ color = <<>>

\* get_divergence_vel, lines 162-176: the grid, and the empty output
BuildGrid ==
    /\ pc = "main"
    /\ grid' = build_grid(width, height)
    /\ slots' = [h \in 0..(height - 1) |-> [w \in 0..(width - 1) |-> <<>>]]
    /\ pc' = "par_iter"
    /\ UNCHANGED <<paletteVars, divergeVars, width, height, velocities, px, imgbuf>>

\* a worker evaluates one cell that is still to do
ParCell ==
    /\ pc = "par_iter"
    /\ \E y \in 0..(height - 1), x \in 0..(width - 1) :
          /\ slots[y][x] = <<>>
          /\ slots' = collect_into(slots, y, x, cell_velocity(grid[y][x], threshold))
    /\ UNCHANGED <<pc, paletteVars, divergeVars, width, height, grid, velocities, px, imgbuf>>

\* every slot is filled: the map returns, and main goes on to the palette
Collect ==
    /\ pc = "par_iter"
    /\ \A y \in 0..(height - 1), x \in 0..(width - 1) : slots[y][x] # <<>>
    /\ velocities' = [y \in 0..(height - 1) |-> [x \in 0..(width - 1) |-> slots[y][x][1]]]
    /\ pc' = "add_col"
    /\ UNCHANGED <<paletteVars, divergeVars, width, height, grid, slots, px, imgbuf>>

\* one turn of main's loop over zip(col_keys, cols); after the last turn
\* the image buffer is made
MainAddCol ==
    /\ pc = "add_col"
    /\ add_col(main_col_keys[adds + 1], main_cols[adds + 1])
    /\ key' = <<main_col_keys[adds + 1]>>
    /\ new_color' = <<main_cols[adds + 1]>>
    /\ adds' = adds + 1
    /\ IF adds + 1 = Len(main_col_keys)
       THEN /\ pc' = "pixels"
            /\ imgbuf' = [i \in 0..(width * height - 1) |-> <<0, 0, 0>>]
       ELSE UNCHANGED <<pc, imgbuf>>
    /\ UNCHANGED <<k, color, divergeVars, width, height, grid, slots, velocities, px>>

\* one turn of the loop over imgbuf.enumerate_pixels_mut()
Pixel ==
    /\ pc = "pixels"
    /\ px < width * height
    /\ LET x        == px % width
           y        == px \div width
           velocity == velocities[y][x]
           pixel    == gradient(velocity, _keys, _key_map)
       IN  /\ k' = <<F64Ratio(velocity, ITERMAX)>>
           /\ color' = <<pixel>>
           /\ IF pixel.panic
              THEN pc' = "panicked" /\ UNCHANGED <<px, imgbuf>>
              ELSE /\ imgbuf' = [imgbuf EXCEPT ![px] = pixel.rgb]
                   /\ px' = px + 1
                   /\ pc' = pc
    /\ UNCHANGED <<_keys, _key_map, key, new_color, adds, divergeVars,
                   width, height, grid, slots, velocities>>

\* imgbuf.save(...)
Save ==
    /\ pc = "pixels"
    /\ px = width * height
    /\ pc' = "done"
    /\ UNCHANGED <<paletteVars, divergeVars, mainVars>>

Next == BuildGrid \/ ParCell \/ Collect \/ MainAddCol \/ Pixel \/ Save

Spec == Init /\ [][Next]_vars

(***************************************************************************)
(* Properties of main and get_divergence_vel, under Spec.                  *)
(***************************************************************************)
\* the field a sequential evaluation builds, row by row and cell by cell
Sequential(wd, ht, th) ==
    [y \in 0..(ht - 1) |->
        [x \in 0..(wd - 1) |->
            cell_velocity(<<sample_x(x, wd, ht), sample_y(y, ht)>>, th)]]

\* C3: whatever order the workers evaluate the cells in, the field returned
\* has height rows of width entries and entry [y][x] is
\* diverges_in(transform(sample(x, y)), threshold): the field of the
\* sequential evaluation.
C3_SameAsSequential ==
    pc \notin {"main", "par_iter"} =>
        /\ DOMAIN velocities = 0..(height - 1)
        /\ \A y \in DOMAIN velocities : DOMAIN velocities[y] = 0..(width - 1)
        /\ velocities = Sequential(width, height, threshold)

\* a returned field of two rows and two columns whose last row holds two
\* different velocities
C3_Witness ==
    /\ pc = "add_col"
    /\ width = 2
    /\ height = 2
    /\ velocities[1][0] # velocities[1][1]

\* C4: pixel (0, 0) samples the corner (-right, -top) of the window and pixel
\* (width - 1, height - 1) the opposite corner (+right, +top), where
\* top = y_scale and right = y_scale * width / height.  Stated for grids of
\* more than one row and column, where the two corners are two pixels.
C4_AsStated ==
    pc # "main" /\ width > 1 /\ height > 1 =>
        /\ grid[0][0] = <<Ratio_neg(x_scale(width, height)), Ratio_neg(y_scale)>>
        /\ grid[height - 1][width - 1] = <<x_scale(width, height), y_scale>>

\* C10: main never reaches get_color's panic: at every lookup the palette
\* holds the stops 0.0, 0.15 and 1.0, every velocity of the field is in
\* 0..ITERMAX, the key looked up is in [0, 1] and a colour comes back.
C10_NoPanic ==
    /\ pc # "panicked"
    /\ pc \in {"add_col", "pixels", "done"} =>
          \A y \in DOMAIN velocities : \A x \in DOMAIN velocities[y] :
              velocities[y][x] \in 0..ITERMAX
    /\ k # <<>> =>
          /\ DOMAIN _key_map = {F64Zero, F64Ratio(15, 100), F64One}
          /\ F64Le(F64Zero, k[1])
          /\ F64Le(k[1], F64One)
          /\ ~color[1].panic

\* a finished render with a pixel at the cap, whose key 1.0 is the last
\* stop itself, and a pixel between the stops 0.0 and 0.15
C10_Witness ==
    /\ pc = "done"
    /\ \E p \in DOMAIN imgbuf :
          /\ velocities[p \div width][p % width] = ITERMAX
          /\ imgbuf[p] = main_cols[3]
    /\ \E p \in DOMAIN imgbuf :
          /\ velocities[p \div width][p % width] \in 1..14
          /\ imgbuf[p] = main_cols[1]

====
